---- MODULE Spec2Model ----
(***************************************************************************)
(* A model of the Rustorium ledger core (src/api_server/blockchain.py):    *)
(* the hash-linked chain of blocks, the pending pool, the account ledger   *)
(* and the re-entrant lock that guards staging, mining and account         *)
(* creation.                                                               *)
(*                                                                         *)
(* Modelling conventions                                                   *)
(*  - Values (balances, amounts, fees) are Python floats in the source.    *)
(*    They are modelled as exact fixed-point numbers [u, n] = u + n/1e9    *)
(*    with 0 <= n < 1e9, so that the fee gas_used * gas_price / 1e9 is     *)
(*    exact.                                                               *)
(*  - hashlib.sha256(...).hexdigest() is modelled as a pair                *)
(*    <<head, preimage>>: head is the leading DEFAULT_DIFFICULTY hex       *)
(*    digits of the digest, a deterministic mix of the hashed fields that  *)
(*    returns to the all-zero head every NonceCycle nonces, and the        *)
(*    preimage stands for the rest of the digest, which makes the hash     *)
(*    collision free.                                                      *)
(*  - None is NoneNumber for block_number, NoOwner for the lock owner and  *)
(*    NoKey for a private key.                                             *)
(*  - time.time() reads the variable clock; uuid.uuid4() reads next_uuid.  *)
(***************************************************************************)
EXTENDS Integers, Sequences, FiniteSets, TLC

VARIABLES
    chain,                  \* Blockchain.chain: sequence of Block records
    pending_transactions,   \* Blockchain.pending_transactions: Transaction objects
    accounts,               \* Blockchain.accounts: address -> Account
    lock,                   \* owner of Blockchain.lock, or NoOwner
    clock,                  \* the value time.time() returns
    next_uuid,              \* the next uuid4 drawn for a Transaction id
    pc,                     \* per thread: position inside mine_pending_transactions
    frame,                  \* per thread: the locals of its running call
    ret,                    \* outcome of the last completed call
    applied,                \* log of the completed _process_transaction calls
    view,                   \* what the query of the last step returned, if it was one
    tampered                \* the block field overwritten post hoc, if any

vars == <<chain, pending_transactions, accounts, lock, clock, next_uuid,
          pc, frame, ret, applied, view, tampered>>

(***************************************************************************)
(* Bounds of the model.                                                    *)
(***************************************************************************)
MaxStaged == 2
MaxBlocks == 2
MaxClock == 2
NonceCycle == 4
MaxConcStaged == 1
MaxConcBlocks == 1

(***************************************************************************)
(* Program constants.                                                      *)
(***************************************************************************)
DEFAULT_DIFFICULTY == 4
HEX_BASE == 16
BLOCK_GAS_LIMIT == 10000000
DEFAULT_GAS_PRICE == 5
DEFAULT_GAS_LIMIT == 21000
BASE_GAS == 21000
GAS_PER_BYTE == 68
GWEI == 1000000000
MINING_REWARD == 5
NoneNumber == -1

SYSTEM_ADDRESS == "0x0000"
ADDR_1 == "0x1234"
ADDR_2 == "0xabcd"
ADDR_3 == "0x9876"
NoKey == "None"
NoOwner == "None"
ZERO_HASH == <<(<<0>>), <<>>>>

(***************************************************************************)
(* Fixed-point values.                                                     *)
(***************************************************************************)
Money(u, n) == [u |-> u + (n \div GWEI), n |-> n % GWEI]

Units(u) == Money(u, 0)

MAdd(a, b) == Money(a.u + b.u, a.n + b.n)

MSub(a, b) == Money(a.u - b.u, a.n - b.n)

MLess(a, b) == a.u < b.u \/ (a.u = b.u /\ a.n < b.n)

Min(a, b) == IF a < b THEN a ELSE b

(***************************************************************************)
(* Transaction.__init__ and Transaction.to_dict.                           *)
(***************************************************************************)
GasUsed(data, gas_limit) ==
    Min(IF Len(data) > 0 THEN BASE_GAS + Len(data) * GAS_PER_BYTE ELSE BASE_GAS,
        gas_limit)

\* The fee argument is overwritten by the derived fee on the last line of
\* the constructor.
Transaction(id, sender, recipient, amount, fee, data, nonce, gas_price, gas_limit, now) ==
    [id |-> id,
     sender |-> sender,
     recipient |-> recipient,
     amount |-> amount,
     fee |-> Money(0, GasUsed(data, gas_limit) * gas_price),
     data |-> data,
     nonce |-> nonce,
     timestamp |-> now,
     status |-> "Pending",
     block_number |-> NoneNumber,
     gas_price |-> gas_price,
     gas_limit |-> gas_limit,
     gas_used |-> GasUsed(data, gas_limit)]

\* to_dict copies the thirteen fields into a fresh dict.
to_dict(tx) ==
    [id |-> tx.id, sender |-> tx.sender, recipient |-> tx.recipient,
     amount |-> tx.amount, fee |-> tx.fee, nonce |-> tx.nonce,
     timestamp |-> tx.timestamp, data |-> tx.data, status |-> tx.status,
     block_number |-> tx.block_number, gas_used |-> tx.gas_used,
     gas_price |-> tx.gas_price, gas_limit |-> tx.gas_limit]

(***************************************************************************)
(* Account.__init__.                                                       *)
(***************************************************************************)
Account(address, private_key, balance, now) ==
    [address |-> address,
     private_key |-> private_key,
     balance |-> balance,
     is_contract |-> FALSE,
     nonce |-> 0,
     transaction_count |-> 0,
     last_activity |-> now]

(***************************************************************************)
(* Block: hashing and Proof-of-Work.                                       *)
(***************************************************************************)
HashSpace == HEX_BASE ^ DEFAULT_DIFFICULTY

\* The leading hex digits of a digest whose leading part has value n.
HexDigits(n) ==
    [i \in 1..DEFAULT_DIFFICULTY |->
        (n \div (HEX_BASE ^ (DEFAULT_DIFFICULTY - i))) % HEX_BASE]

\* json.dumps(..., sort_keys=True) of the six hashed fields.
HashInput(b) ==
    <<b.index, b.transactions, b.timestamp, b.previous_hash, b.validator, b.nonce>>

\* The mix of the hashed fields that decides the head of the digest.
Mix(x) == (3 * x[1] + Len(x[2]) + 5 * x[3] + x[4][1][1] + x[6]) % NonceCycle

Sha256(x) == <<HexDigits(Mix(x) * (HashSpace \div NonceCycle)), x>>

calculate_hash(b) == Sha256(HashInput(b))

\* Block.__init__ (the serialized size is not modelled: nothing reads it).
RECURSIVE SumGasUsed(_)
SumGasUsed(txs) ==
    IF txs = <<>> THEN 0 ELSE txs[1].gas_used + SumGasUsed(Tail(txs))

Block(index, transactions, timestamp, previous_hash, validator) ==
    LET b == [index |-> index,
              transactions |-> transactions,
              timestamp |-> timestamp,
              previous_hash |-> previous_hash,
              validator |-> validator,
              difficulty |-> DEFAULT_DIFFICULTY,
              nonce |-> 0,
              hash |-> ZERO_HASH,
              gas_used |-> SumGasUsed(transactions),
              gas_limit |-> BLOCK_GAS_LIMIT]
    IN  [b EXCEPT !.hash = calculate_hash(b)]

\* self.hash[:self.difficulty] == "0" * self.difficulty
MeetsTarget(b) ==
    SubSeq(b.hash[1], 1, b.difficulty) = [i \in 1..b.difficulty |-> 0]

\* Mutant: the nonce advances but the stored hash is that of the old nonce.
PowStep_StaleHash(b) ==
    [b EXCEPT !.nonce = @ + 1, !.hash = calculate_hash(b)]

\* One iteration of the while loop of mine_block.
PowStep(b) ==
    LET n == [b EXCEPT !.nonce = @ + 1]
    IN  [n EXCEPT !.hash = calculate_hash(n)]

RECURSIVE mine_block(_)
mine_block(b) == IF MeetsTarget(b) THEN b ELSE mine_block(PowStep(b))

(***************************************************************************)
(* Blockchain: construction.                                               *)
(***************************************************************************)
create_genesis_block(now) ==
    LET genesis_block == Block(0, <<>>, now, ZERO_HASH, SYSTEM_ADDRESS)
    IN  [genesis_block EXCEPT !.hash = calculate_hash(genesis_block)]

INITIAL_BALANCE_1 == 1000000
INITIAL_BALANCE_2 == 500000
INITIAL_BALANCE_3 == 750000

initial_accounts(now) ==
    (ADDR_1 :> Account(ADDR_1, "0xabcdef", Units(INITIAL_BALANCE_1), now)) @@
    (ADDR_2 :> Account(ADDR_2, "0x123456", Units(INITIAL_BALANCE_2), now)) @@
    (ADDR_3 :> Account(ADDR_3, "0xfedcba", Units(INITIAL_BALANCE_3), now))

get_latest_block(ch) == ch[Len(ch)]

(***************************************************************************)
(* Blockchain.add_transaction, on the ledger (accts, pend).                *)
(***************************************************************************)
\* Mutant: the sender's nonce is not advanced.
add_transaction_NoIncrement(accts, pend, tx, now) ==
    IF tx.sender \notin DOMAIN accts
    THEN [error |-> "UnknownSender", accounts |-> accts, pending |-> pend]
    ELSE [error |-> "None", accounts |-> accts,
          pending |-> Append(pend, [tx EXCEPT !.nonce = accts[tx.sender].nonce])]

\* Mutant: the balance is compared with the amount alone, without the fee.
add_transaction_NoFeeInCheck(accts, pend, tx, now) ==
    IF tx.sender \notin DOMAIN accts
    THEN [error |-> "UnknownSender", accounts |-> accts, pending |-> pend]
    ELSE LET withRecipient ==
                 IF tx.recipient \notin DOMAIN accts
                 THEN accts @@ (tx.recipient :> Account(tx.recipient, NoKey, Units(0), now))
                 ELSE accts
         IN  IF MLess(withRecipient[tx.sender].balance, tx.amount)
             THEN [error |-> "InsufficientBalance",
                   accounts |-> withRecipient, pending |-> pend]
             ELSE [error |-> "None",
                   accounts |-> [withRecipient EXCEPT ![tx.sender].nonce = @ + 1],
                   pending |-> Append(pend, [tx EXCEPT !.nonce = accts[tx.sender].nonce])]

add_transaction(accts, pend, tx, now) ==
    IF tx.sender \notin DOMAIN accts
    THEN [error |-> "UnknownSender", accounts |-> accts, pending |-> pend]
    ELSE LET withRecipient ==
                 IF tx.recipient \notin DOMAIN accts
                 THEN accts @@ (tx.recipient :> Account(tx.recipient, NoKey, Units(0), now))
                 ELSE accts
             sender_account == withRecipient[tx.sender]
         IN  IF MLess(sender_account.balance, MAdd(tx.amount, tx.fee))
             THEN [error |-> "InsufficientBalance",
                   accounts |-> withRecipient, pending |-> pend]
             ELSE [error |-> "None",
                   accounts |-> [withRecipient EXCEPT ![tx.sender].nonce = @ + 1],
                   pending |-> Append(pend, [tx EXCEPT !.nonce = sender_account.nonce])]

(***************************************************************************)
(* Blockchain.mine_pending_transactions, statement by statement.           *)
(***************************************************************************)
reward_tx(miner_address, id, now) ==
    [Transaction(id, SYSTEM_ADDRESS, miner_address, Units(MINING_REWARD), Units(0),
                 <<>>, 0, DEFAULT_GAS_PRICE, DEFAULT_GAS_LIMIT, now)
        EXCEPT !.status = "Confirmed"]

\* Mutant: the new block is linked to the genesis block, not to the head.
new_block_GenesisParent(ch, pend, miner_address, now) ==
    Block(Len(ch), [i \in 1..Len(pend) |-> to_dict(pend[i])], now, ch[1].hash,
          miner_address)

new_block(ch, pend, miner_address, now) ==
    Block(Len(ch),
          [i \in 1..Len(pend) |-> to_dict(pend[i])],
          now,
          get_latest_block(ch).hash,
          miner_address)

\* Blockchain._process_transaction.  Account.__init__ takes no last_activity
\* keyword, so the branch that creates a missing recipient raises TypeError
\* after the status, the block number and the sender's debit were written.
LogEntry(tx, block_number) ==
    [id |-> tx.id, sender |-> tx.sender, recipient |-> tx.recipient,
     amount |-> tx.amount, fee |-> tx.fee, block_number |-> block_number]

\* Mutant: the sender is debited the amount only, the fee is not charged.
process_transaction_NoFee(accts, tx, block_number) ==
    LET confirmed == [tx EXCEPT !.status = "Confirmed", !.block_number = block_number]
        debited ==
            IF tx.sender /= SYSTEM_ADDRESS /\ tx.sender \in DOMAIN accts
            THEN [accts EXCEPT ![tx.sender].balance = MSub(@, tx.amount)]
            ELSE accts
    IN  IF tx.recipient \in DOMAIN debited
        THEN [raised |-> FALSE, tx |-> confirmed,
              accounts |-> [debited EXCEPT ![tx.recipient].balance = MAdd(@, tx.amount)]]
        ELSE [raised |-> TRUE, tx |-> confirmed, accounts |-> debited]

\* Mutant: the sender is debited but an existing recipient is not credited.
process_transaction_NoCredit(accts, tx, block_number) ==
    LET confirmed == [tx EXCEPT !.status = "Confirmed", !.block_number = block_number]
        debited ==
            IF tx.sender /= SYSTEM_ADDRESS /\ tx.sender \in DOMAIN accts
            THEN [accts EXCEPT
                    ![tx.sender].balance = MSub(@, MAdd(tx.amount, tx.fee)),
                    ![tx.sender].transaction_count = @ + 1,
                    ![tx.sender].last_activity = tx.timestamp]
            ELSE accts
    IN  [raised |-> tx.recipient \notin DOMAIN debited, tx |-> confirmed,
         accounts |-> debited]

process_transaction(accts, tx, block_number) ==
    LET confirmed == [tx EXCEPT !.status = "Confirmed", !.block_number = block_number]
        debited ==
            IF tx.sender /= SYSTEM_ADDRESS /\ tx.sender \in DOMAIN accts
            THEN [accts EXCEPT
                    ![tx.sender].balance = MSub(@, MAdd(tx.amount, tx.fee)),
                    ![tx.sender].transaction_count = @ + 1,
                    ![tx.sender].last_activity = tx.timestamp]
            ELSE accts
    IN  IF tx.recipient \in DOMAIN debited
        THEN [raised |-> FALSE,
              tx |-> confirmed,
              accounts |-> [debited EXCEPT
                              ![tx.recipient].balance = MAdd(@, tx.amount),
                              ![tx.recipient].last_activity = tx.timestamp]]
        ELSE [raised |-> TRUE, tx |-> confirmed, accounts |-> debited]

\* The for loop over self.pending_transactions, from position i on.
RECURSIVE process_all(_, _, _, _, _)
process_all(accts, pend, i, block_number, log) ==
    IF i > Len(pend)
    THEN [raised |-> FALSE, accounts |-> accts, pending |-> pend, applied |-> log]
    ELSE LET r == process_transaction(accts, pend[i], block_number)
             pend1 == [pend EXCEPT ![i] = r.tx]
         IN  IF r.raised
             THEN [raised |-> TRUE, accounts |-> r.accounts, pending |-> pend1,
                   applied |-> log]
             ELSE process_all(r.accounts, pend1, i + 1, block_number,
                              Append(log, LogEntry(pend[i], block_number)))

(***************************************************************************)
(* Blockchain.is_chain_valid.                                              *)
(***************************************************************************)
\* Mutant: only the links are compared, no hash is recomputed.
is_chain_valid_LinksOnly(ch) ==
    \A i \in 2..Len(ch) : ch[i].previous_hash = ch[i - 1].hash

is_chain_valid(ch) ==
    \A i \in 2..Len(ch) :
        /\ ch[i].hash = calculate_hash(ch[i])
        /\ ch[i].previous_hash = ch[i - 1].hash

(***************************************************************************)
(* State machine.                                                          *)
(***************************************************************************)
Threads == {"t1", "t2"}

IdleFrame == [miner_address |-> "None", new_block |-> <<>>, i |-> 0]

NotTampered == [block |-> NoneNumber, field |-> "None"]

NoView == [op |-> "None"]

\* Inputs of the calls.
SenderInputs == {ADDR_1, ADDR_2, "0xdead"}
RecipientInputs == {"0xbeef"}
AmountInputs == {Units(400000)}
DataInputs == {<<>>}
GasInputs == {[gas_price |-> DEFAULT_GAS_PRICE, gas_limit |-> DEFAULT_GAS_LIMIT]}
MinerInputs == {ADDR_1, "0xcafe"}
GeneratedAddresses == {"0xfeed"}

\* Mutant: the pool is never taken for empty.
NothingToMine_Never(pend) == FALSE

\* if not self.pending_transactions: return None
NothingToMine(pend) == pend = <<>>

\* Blockchain.__init__: the genesis block is built at the first clock value
\* and is not mined; the three development accounts follow.
Init ==
    /\ clock = 1
    /\ chain = <<create_genesis_block(1)>>
    /\ pending_transactions = <<>>
    /\ accounts = initial_accounts(1)
    /\ lock = NoOwner
    /\ next_uuid = 1
    /\ pc = [t \in Threads |-> "idle"]
    /\ frame = [t \in Threads |-> IdleFrame]
    /\ ret = [op |-> "None", error |-> "None", value |-> NoneNumber]
    /\ applied = <<>>
    /\ view = NoView
    /\ tampered = NotTampered

\* Mutant: the lock is ignored.
CanAcquire_Unlocked == TRUE

\* with self.lock: a caller enters when no other thread owns the lock.
CanAcquire == lock = NoOwner

RECURSIVE SumNonces(_, _)
SumNonces(accts, addrs) ==
    IF addrs = {} THEN 0
    ELSE LET a == CHOOSE x \in addrs : TRUE
         IN  accts[a].nonce + SumNonces(accts, addrs \ {a})

StagedCount == SumNonces(accounts, DOMAIN accounts)

Tick ==
    /\ clock < MaxClock
    /\ clock' = clock + 1
    /\ view' = NoView
    /\ UNCHANGED <<chain, pending_transactions, accounts, lock, next_uuid, pc, frame, ret, applied, tampered>>

\* add_transaction called with a dict: the whole call, under the lock.
AddTransaction(sender, recipient, amount, data, gas) ==
    /\ CanAcquire
    /\ StagedCount < MaxStaged
    /\ LET tx == Transaction(next_uuid, sender, recipient, amount, Units(0), data, 0,
                             gas.gas_price, gas.gas_limit, clock)
           r == add_transaction(accounts, pending_transactions, tx, clock)
       IN  /\ accounts' = r.accounts
           /\ pending_transactions' = r.pending
           /\ next_uuid' = IF r.error = "None" THEN next_uuid + 1 ELSE next_uuid
           /\ ret' = [op |-> "add_transaction", error |-> r.error,
                      value |-> IF r.error = "None" THEN tx.id ELSE NoneNumber]
    /\ view' = NoView
    /\ UNCHANGED <<chain, lock, clock, pc, frame, applied, tampered>>

\* mine_pending_transactions: the whole call, under the lock.
MinePendingTransactions(miner_address) ==
    /\ CanAcquire
    /\ IF NothingToMine(pending_transactions)
       THEN /\ ret' = [op |-> "mine_pending_transactions", error |-> "None",
                       value |-> NoneNumber]
            /\ UNCHANGED <<chain, pending_transactions, accounts, next_uuid, applied>>
       ELSE /\ Len(chain) <= MaxBlocks
            /\ LET pool == Append(pending_transactions,
                                  reward_tx(miner_address, next_uuid, clock))
                   mined == mine_block(new_block(chain, pool, miner_address, clock))
                   r == process_all(accounts, pool, 1, mined.index, applied)
               IN  /\ chain' = Append(chain, mined)
                   /\ accounts' = r.accounts
                   /\ applied' = r.applied
                   /\ pending_transactions' = IF r.raised THEN r.pending ELSE <<>>
                   /\ next_uuid' = next_uuid + 1
                   /\ ret' = [op |-> "mine_pending_transactions",
                              error |-> IF r.raised THEN "TypeError" ELSE "None",
                              value |-> IF r.raised THEN NoneNumber ELSE mined.index]
    /\ view' = NoView
    /\ UNCHANGED <<lock, clock, pc, frame, tampered>>

\* create_account: a fresh address and key, an empty account.
CreateAccount(address) ==
    /\ CanAcquire
    /\ address \notin DOMAIN accounts
    /\ accounts' = accounts @@ (address :> Account(address, "0xkey", Units(0), clock))
    /\ ret' = [op |-> "create_account", error |-> "None", value |-> NoneNumber]
    /\ view' = NoView
    /\ UNCHANGED <<chain, pending_transactions, lock, clock, next_uuid, pc, frame, applied, tampered>>

Next ==
    \/ Tick
    \/ \E s \in SenderInputs, r \in RecipientInputs, a \in AmountInputs,
          d \in DataInputs, g \in GasInputs : AddTransaction(s, r, a, d, g)
    \/ \E m \in MinerInputs : MinePendingTransactions(m)

Spec == Init /\ [][Next]_vars

(***************************************************************************)
(* Helpers of the properties.                                              *)
(***************************************************************************)
RECURSIVE TotalBalance(_, _)
TotalBalance(accts, addrs) ==
    IF addrs = {} THEN Units(0)
    ELSE LET a == CHOOSE x \in addrs : TRUE
         IN  MAdd(accts[a].balance, TotalBalance(accts, addrs \ {a}))

InitialTotal == TotalBalance(initial_accounts(1), DOMAIN initial_accounts(1))

\* Value created by the logged applications whose sender is the system address.
RECURSIVE Minted(_)
Minted(log) ==
    IF log = <<>> THEN Units(0)
    ELSE MAdd(IF log[1].sender = SYSTEM_ADDRESS THEN log[1].amount ELSE Units(0),
              Minted(Tail(log)))

\* Fees charged by the logged applications to senders other than the system address.
RECURSIVE Burned(_)
Burned(log) ==
    IF log = <<>> THEN Units(0)
    ELSE MAdd(IF log[1].sender /= SYSTEM_ADDRESS THEN log[1].fee ELSE Units(0),
              Burned(Tail(log)))

\* The transactions embedded in the chain, block after block.
RECURSIVE ChainTxs(_)
ChainTxs(ch) ==
    IF ch = <<>> THEN <<>> ELSE ch[1].transactions \o ChainTxs(Tail(ch))

\* The first occurrence of every transaction id, in order.
RECURSIVE Distinct(_, _)
Distinct(txs, seen) ==
    IF txs = <<>> THEN <<>>
    ELSE IF txs[1].id \in seen THEN Distinct(Tail(txs), seen)
         ELSE <<txs[1]>> \o Distinct(Tail(txs), seen \cup {txs[1].id})

\* The transactions of one sender, confirmed first and pending last.
TxsOf(sender) ==
    SelectSeq(Distinct(ChainTxs(chain) \o
                       [i \in 1..Len(pending_transactions) |->
                            to_dict(pending_transactions[i])], {}),
              LAMBDA tx : tx.sender = sender)

(***************************************************************************)
(* C1: after any sequence of add_transaction and mine_pending_transactions *)
(* calls on a fresh ledger, is_chain_valid() returns true.                 *)
(***************************************************************************)
C1_ChainValid == is_chain_valid(chain)

C1_Witness == Len(chain) = 3 /\ is_chain_valid(chain)

(***************************************************************************)
(* C2 as stated: the balances of all accounts change in total only by the  *)
(* value minted from the system address (debits equal credits otherwise).  *)
(***************************************************************************)
C2_ValueConserved ==
    TotalBalance(accounts, DOMAIN accounts) = MAdd(InitialTotal, Minted(applied))

(***************************************************************************)
(* C2 amended: the sum debited from senders equals the sum credited to     *)
(* recipients plus the fees of the applied transactions, which no account  *)
(* receives; a transaction sent by the system address debits nothing.      *)
(***************************************************************************)
C2_ValueConservedUpToFees ==
    TotalBalance(accounts, DOMAIN accounts)
        = MSub(MAdd(InitialTotal, Minted(applied)), Burned(applied))

C2_Witness ==
    /\ \E k \in 1..Len(applied) : applied[k].sender /= SYSTEM_ADDRESS
    /\ \E k \in 1..Len(applied) : applied[k].sender = SYSTEM_ADDRESS

(***************************************************************************)
(* C3: no account balance is negative in any reachable state.              *)
(***************************************************************************)
C3_NoNegativeBalance ==
    \A a \in DOMAIN accounts : ~MLess(accounts[a].balance, Units(0))

(***************************************************************************)
(* C4: a successful add_transaction stores the sender's nonce of before    *)
(* the call on the transaction and leaves the sender's nonce one greater;  *)
(* the distinct transactions of one sender, confirmed and pending, carry   *)
(* the nonces 0, 1, 2, ... in staging order, up to the sender's nonce.     *)
(***************************************************************************)
C4_StagedNonces ==
    \A s \in DOMAIN accounts \ {SYSTEM_ADDRESS} :
        /\ Len(TxsOf(s)) = accounts[s].nonce
        /\ \A k \in 1..Len(TxsOf(s)) : TxsOf(s)[k].nonce = k - 1

C4_StageStep ==
    (ret'.op = "add_transaction" /\ ret'.error = "None" /\ next_uuid' = next_uuid + 1)
        => LET tx == pending_transactions'[Len(pending_transactions')]
           IN  /\ pending_transactions' = Append(pending_transactions, tx)
               /\ tx.id = ret'.value
               /\ tx.nonce = accounts[tx.sender].nonce
               /\ accounts'[tx.sender].nonce = accounts[tx.sender].nonce + 1

C4_NonceDiscipline == [](C4_StagedNonces) /\ [][C4_StageStep]_vars

C4_Witness ==
    \E s \in DOMAIN accounts :
        /\ Len(TxsOf(s)) = 2
        /\ TxsOf(s)[1].id \notin {pending_transactions[i].id :
                                      i \in 1..Len(pending_transactions)}
        /\ TxsOf(s)[2].id \in {pending_transactions[i].id :
                                   i \in 1..Len(pending_transactions)}

(***************************************************************************)
(* C7: a mine_pending_transactions call on a non-empty pool either         *)
(* completes (block appended, every pooled transaction and the reward      *)
(* applied once, pool cleared, block returned) or leaves chain, pool and   *)
(* accounts as they were.                                                  *)
(***************************************************************************)
C7_MineStep ==
    ret'.op = "mine_pending_transactions" /\ next_uuid' = next_uuid + 1

C7_Completed ==
    /\ Len(chain') = Len(chain) + 1
    /\ pending_transactions' = <<>>
    /\ ret'.error = "None"
    /\ ret'.value = chain'[Len(chain')].index
    /\ Len(applied') = Len(applied) + Len(pending_transactions) + 1
    /\ \A k \in 1..Len(chain'[Len(chain')].transactions) :
          applied'[Len(applied) + k].id = chain'[Len(chain')].transactions[k].id

C7_MiningAllOrNothing ==
    [][C7_MineStep =>
          (C7_Completed \/ UNCHANGED <<chain, pending_transactions, accounts>>)]_vars

(***************************************************************************)
(* C8: every block of the chain, the genesis block included, has a stored  *)
(* hash that starts with difficulty zero digits and that equals the hash   *)
(* recomputed from the block's own fields.                                 *)
(***************************************************************************)
C8_EveryBlockMeetsDifficulty ==
    \A i \in 1..Len(chain) :
        MeetsTarget(chain[i]) /\ chain[i].hash = calculate_hash(chain[i])

(***************************************************************************)
(* C10: every block's index is its position in the chain, the genesis      *)
(* block has index 0, and every later block's previous_hash is the stored  *)
(* hash of the block before it.                                            *)
(***************************************************************************)
C10_ChainLinked ==
    /\ chain[1].index = 0
    /\ \A i \in 1..Len(chain) : chain[i].index = i - 1
    /\ \A i \in 2..Len(chain) : chain[i].previous_hash = chain[i - 1].hash

C10_Witness ==
    /\ Len(chain) = 3
    /\ chain[3].index = 2
    /\ chain[3].previous_hash = chain[2].hash

(***************************************************************************)
(* Post-hoc tampering: one hashed field of one stored block is overwritten *)
(* with a different value, once, on a chain built by staging and mining.   *)
(***************************************************************************)
HashedFields == {"index", "timestamp", "previous_hash", "nonce", "validator"}

TxFields == {"amount", "recipient", "block_number"}

\* The values an attacker may write into a block field.
FieldValues(b, field) ==
    CASE field = "index" -> {b.index + 1}
      [] field = "timestamp" -> {b.timestamp + 1}
      [] field = "nonce" -> {b.nonce + 1}
      [] field = "validator" -> {"0xbad0"}
      [] field = "previous_hash" -> {ZERO_HASH} \cup {chain[k].hash : k \in 1..Len(chain)}

\* The values an attacker may write into a field of an embedded transaction.
TxFieldValues(b, tx, field) ==
    CASE field = "amount" -> {MAdd(tx.amount, Units(1))}
      [] field = "recipient" -> {"0xbad0"}
      [] field = "block_number" -> {b.index}

TamperBlock(i, field, value) ==
    /\ tampered = NotTampered
    /\ value /= chain[i][field]
    /\ chain' = [chain EXCEPT ![i][field] = value]
    /\ tampered' = [block |-> chain[i].index, field |-> field]
    /\ view' = NoView
    /\ UNCHANGED <<pending_transactions, accounts, lock, clock, next_uuid, pc, frame, ret, applied>>

TamperTransaction(i, j, field, value) ==
    /\ tampered = NotTampered
    /\ value /= chain[i].transactions[j][field]
    /\ chain' = [chain EXCEPT ![i].transactions[j][field] = value]
    /\ tampered' = [block |-> chain[i].index, field |-> "transactions"]
    /\ view' = NoView
    /\ UNCHANGED <<pending_transactions, accounts, lock, clock, next_uuid, pc, frame, ret, applied>>

\* The chain that is tampered with is built by one sender and one miner.
BuildChain ==
    /\ tampered = NotTampered
    /\ \/ Tick
       \/ \E g \in GasInputs : AddTransaction(ADDR_1, ADDR_2, Units(100), <<>>, g)
       \/ MinePendingTransactions(ADDR_1)

NextTamper ==
    \/ BuildChain
    \/ \E i \in 1..Len(chain), f \in HashedFields :
          \E v \in FieldValues(chain[i], f) : TamperBlock(i, f, v)
    \/ \E i \in 1..Len(chain) :
          \E j \in 1..Len(chain[i].transactions), f \in TxFields :
             \E v \in TxFieldValues(chain[i], chain[i].transactions[j], f) :
                TamperTransaction(i, j, f, v)

SpecTamper == Init /\ [][NextTamper]_vars

(***************************************************************************)
(* C9 as stated: overwriting one hashed field of any block of a valid      *)
(* chain, the genesis block included, makes is_chain_valid() return false. *)
(***************************************************************************)
C9_TamperDetected == tampered /= NotTampered => ~is_chain_valid(chain)

(***************************************************************************)
(* C9 amended: overwriting one hashed field (index, timestamp,             *)
(* previous_hash, nonce, validator or a field of an embedded transaction)  *)
(* of a block other than the genesis block makes is_chain_valid() return   *)
(* false.                                                                  *)
(***************************************************************************)
C9_TamperDetectedAfterGenesis ==
    (tampered /= NotTampered /\ tampered.block >= 1) => ~is_chain_valid(chain)

C9_Witness ==
    /\ Len(chain) = 3
    /\ tampered.block = 1
    /\ tampered.field = "transactions"
    /\ ~is_chain_valid(chain)

(***************************************************************************)
(* Concurrent callers.  add_transaction and create_account run under the   *)
(* lock in one step; mine_pending_transactions holds the lock over the     *)
(* steps below; the queries take no lock.                                  *)
(***************************************************************************)
SetPc(t, label) == pc' = [pc EXCEPT ![t] = label]

Mining(t) == pc[t] /= "idle"

\* Lines 334-337: enter the critical section; an empty pool returns None.
MineEnter(t, miner_address) ==
    /\ pc[t] = "idle"
    /\ CanAcquire
    /\ IF NothingToMine(pending_transactions)
       THEN /\ ret' = [op |-> "mine_pending_transactions", error |-> "None",
                       value |-> NoneNumber]
            /\ UNCHANGED <<lock, pc, frame>>
       ELSE /\ Len(chain) <= MaxBlocks
            /\ lock' = t
            /\ SetPc(t, "reward")
            /\ frame' = [frame EXCEPT ![t].miner_address = miner_address]
            /\ UNCHANGED ret
    /\ view' = NoView
    /\ UNCHANGED <<chain, pending_transactions, accounts, clock, next_uuid, applied, tampered>>

\* Lines 339-347: the reward transaction joins the pool.
MineReward(t) ==
    /\ pc[t] = "reward"
    /\ pending_transactions' =
           Append(pending_transactions,
                  reward_tx(frame[t].miner_address, next_uuid, clock))
    /\ next_uuid' = next_uuid + 1
    /\ SetPc(t, "build")
    /\ view' = NoView
    /\ UNCHANGED <<chain, accounts, lock, clock, frame, ret, applied, tampered>>

\* Lines 349-356: the pool is copied into a new block.
MineBuild(t) ==
    /\ pc[t] = "build"
    /\ frame' = [frame EXCEPT ![t].new_block =
                    <<new_block(chain, pending_transactions,
                                frame[t].miner_address, clock)>>]
    /\ SetPc(t, "pow")
    /\ view' = NoView
    /\ UNCHANGED <<chain, pending_transactions, accounts, lock, clock, next_uuid, ret, applied, tampered>>

\* Mutant: the loop body recomputes the hash without advancing the nonce.
MinePow_StaleNonce(t) ==
    /\ pc[t] = "pow"
    /\ IF MeetsTarget(frame[t].new_block[1])
       THEN SetPc(t, "append") /\ UNCHANGED frame
       ELSE /\ frame' = [frame EXCEPT ![t].new_block =
                           <<[frame[t].new_block[1] EXCEPT
                                 !.hash = calculate_hash(frame[t].new_block[1])]>>]
            /\ UNCHANGED pc
    /\ view' = NoView
    /\ UNCHANGED <<chain, pending_transactions, accounts, lock, clock, next_uuid, ret, applied, tampered>>

\* Line 359: one test of the while loop of mine_block, and its body.
MinePow(t) ==
    /\ pc[t] = "pow"
    /\ IF MeetsTarget(frame[t].new_block[1])
       THEN SetPc(t, "append") /\ UNCHANGED frame
       ELSE /\ frame' = [frame EXCEPT ![t].new_block = <<PowStep(frame[t].new_block[1])>>]
            /\ UNCHANGED pc
    /\ view' = NoView
    /\ UNCHANGED <<chain, pending_transactions, accounts, lock, clock, next_uuid, ret, applied, tampered>>

\* Line 362: the block joins the chain.
MineAppend(t) ==
    /\ pc[t] = "append"
    /\ chain' = Append(chain, frame[t].new_block[1])
    /\ frame' = [frame EXCEPT ![t].i = 1]
    /\ SetPc(t, "process")
    /\ view' = NoView
    /\ UNCHANGED <<pending_transactions, accounts, lock, clock, next_uuid, ret, applied, tampered>>

\* Lines 365-366: one iteration of the loop over the pool; a TypeError
\* leaves the call and releases the lock.
MineProcess(t) ==
    /\ pc[t] = "process"
    /\ frame[t].i <= Len(pending_transactions)
    /\ LET i == frame[t].i
           tx == pending_transactions[i]
           block_number == frame[t].new_block[1].index
           r == process_transaction(accounts, tx, block_number)
       IN  /\ pending_transactions' = [pending_transactions EXCEPT ![i] = r.tx]
           /\ accounts' = r.accounts
           /\ IF r.raised
              THEN /\ lock' = NoOwner
                   /\ SetPc(t, "idle")
                   /\ frame' = [frame EXCEPT ![t] = IdleFrame]
                   /\ ret' = [op |-> "mine_pending_transactions",
                              error |-> "TypeError", value |-> NoneNumber]
                   /\ UNCHANGED applied
              ELSE /\ applied' = Append(applied, LogEntry(tx, block_number))
                   /\ frame' = [frame EXCEPT ![t].i = i + 1]
                   /\ UNCHANGED <<lock, pc, ret>>
    /\ view' = NoView
    /\ UNCHANGED <<chain, clock, next_uuid, tampered>>

\* Lines 368-372: the pool is cleared, the lock released, the block returned.
MineClear(t) ==
    /\ pc[t] = "process"
    /\ frame[t].i > Len(pending_transactions)
    /\ pending_transactions' = <<>>
    /\ lock' = NoOwner
    /\ SetPc(t, "idle")
    /\ frame' = [frame EXCEPT ![t] = IdleFrame]
    /\ ret' = [op |-> "mine_pending_transactions", error |-> "None",
               value |-> frame[t].new_block[1].index]
    /\ view' = NoView
    /\ UNCHANGED <<chain, accounts, clock, next_uuid, applied, tampered>>

\* Where get_transaction finds tx_id: in the pool first, then in the chain.
RECURSIVE FindPending(_, _)
FindPending(pend, tx_id) ==
    IF pend = <<>> THEN <<>>
    ELSE IF pend[1].id = tx_id THEN <<to_dict(pend[1])>>
         ELSE FindPending(Tail(pend), tx_id)

\* The position <<block, transaction>> of the first embedded dict with tx_id.
FindInChain(ch, tx_id) ==
    LET hits == {p \in {<<i, j>> : i \in 1..Len(ch), j \in 1..MaxStaged + MaxBlocks + 1} :
                    /\ p[2] <= Len(ch[p[1]].transactions)
                    /\ ch[p[1]].transactions[p[2]].id = tx_id}
    IN  IF hits = {} THEN <<>>
        ELSE CHOOSE p \in hits :
                \A q \in hits : p[1] < q[1] \/ (p[1] = q[1] /\ p[2] <= q[2])

\* get_transaction: a hit in the chain writes block_number into the stored dict.
GetTransaction(tx_id) ==
    LET pooled == FindPending(pending_transactions, tx_id)
        at == FindInChain(chain, tx_id)
    IN  /\ IF pooled /= <<>>
           THEN /\ view' = [op |-> "get_transaction", found |-> TRUE, from_pool |-> TRUE,
                            result |-> pooled[1], mining |-> lock /= NoOwner]
                /\ UNCHANGED chain
           ELSE IF at /= <<>>
           THEN /\ chain' = [chain EXCEPT ![at[1]].transactions[at[2]].block_number =
                                            chain[at[1]].index]
                /\ view' = [op |-> "get_transaction", found |-> TRUE, from_pool |-> FALSE,
                            result |-> chain'[at[1]].transactions[at[2]],
                            mining |-> lock /= NoOwner]
           ELSE /\ view' = [op |-> "get_transaction", found |-> FALSE, from_pool |-> FALSE,
                            result |-> tx_id, mining |-> lock /= NoOwner]
                /\ UNCHANGED chain
        /\ UNCHANGED <<pending_transactions, accounts, lock, clock, next_uuid,
                       pc, frame, ret, applied, tampered>>

\* The timestamp deltas of get_network_stats: blocks 1 .. min(11, len) - 1.
RECURSIVE SumBlockTimes(_, _)
SumBlockTimes(ch, i) ==
    IF i < 2 THEN 0
    ELSE (ch[i].timestamp - ch[i - 1].timestamp) + SumBlockTimes(ch, i - 1)

STATS_WINDOW == 11

\* get_network_stats.  The two quotients are kept as fractions [num, den]:
\* average_block_time is 0 without deltas, tps is 0 unless the average is
\* positive.
get_network_stats(ch, pend, accts) ==
    LET last == Min(STATS_WINDOW, Len(ch))
        count == last - 1
        total == SumBlockTimes(ch, last)
        latest_tx_count == Len(get_latest_block(ch).transactions)
    IN  [block_count |-> Len(ch),
         latest_block |-> [number |-> get_latest_block(ch).index,
                           transactions |->
                               [j \in 1..latest_tx_count |->
                                    get_latest_block(ch).transactions[j].id]],
         pending_transactions |-> Len(pend),
         average_block_time |-> IF count > 0 THEN [num |-> total, den |-> count]
                                ELSE [num |-> 0, den |-> 1],
         tps |-> IF count > 0 /\ total > 0
                 THEN [num |-> latest_tx_count * count, den |-> total]
                 ELSE [num |-> 0, den |-> 1],
         account_count |-> Cardinality(DOMAIN accts),
         difficulty |-> get_latest_block(ch).difficulty]

GetNetworkStats ==
    /\ view' = [op |-> "get_network_stats",
                result |-> get_network_stats(chain, pending_transactions, accounts),
                mining |-> lock /= NoOwner]
    /\ UNCHANGED <<chain, pending_transactions, accounts, lock, clock, next_uuid,
                   pc, frame, ret, applied, tampered>>

ConcSenders == {ADDR_1}
ConcMiners == {ADDR_1}

NextConc ==
    \/ Tick
    \/ \E s \in ConcSenders, r \in RecipientInputs, a \in AmountInputs,
          d \in DataInputs, g \in GasInputs :
             StagedCount < MaxConcStaged /\ AddTransaction(s, r, a, d, g)
    \/ \E a \in GeneratedAddresses : CreateAccount(a)
    \/ \E t \in Threads, m \in ConcMiners :
          Len(chain) <= MaxConcBlocks /\ MineEnter(t, m)
    \/ \E t \in Threads : MineReward(t)
    \/ \E t \in Threads : MineBuild(t)
    \/ \E t \in Threads : MinePow(t)
    \/ \E t \in Threads : MineAppend(t)
    \/ \E t \in Threads : MineProcess(t)
    \/ \E t \in Threads : MineClear(t)
    \/ \E id \in 1..(next_uuid - 1) : GetTransaction(id)
    \/ GetNetworkStats

SpecConc == Init /\ [][NextConc]_vars

(***************************************************************************)
(* C5: from the moment a mine_pending_transactions call enters until it    *)
(* leaves, the caller owns the lock and no add_transaction,                *)
(* mine_pending_transactions or create_account step of another caller      *)
(* takes effect: in a step the miner does not take, the pool, the          *)
(* accounts, the length of the chain and the lock stay as they are.        *)
(***************************************************************************)
C5_MinerOwnsLock == \A t \in Threads : Mining(t) => lock = t

C5_OthersKeptOut ==
    \A t \in Threads :
        (Mining(t) /\ pc'[t] = pc[t] /\ frame'[t] = frame[t])
            => /\ pending_transactions' = pending_transactions
               /\ accounts' = accounts
               /\ Len(chain') = Len(chain)
               /\ lock' = lock

C6_NoHalfAppliedView ==
    (view.op = "get_transaction" /\ view.found /\ view.from_pool)
        => /\ ~(view.result.sender = SYSTEM_ADDRESS /\ view.result.status = "Confirmed")
           /\ FindInChain(chain, view.result.id) = <<>>

(***************************************************************************)
(* Sequential callers with wider inputs and the lookups.  The amounts      *)
(* include the whole balance of the sender and a negative amount; the      *)
(* recipients include an address without an Account record.                *)
(***************************************************************************)
MaxApiStaged == 1
MaxApiBlocks == 1

ApiSenders == {ADDR_2, "0xdead"}
ApiRecipients == {"0xbeef", ADDR_3}
ApiAmounts == {Units(100), Units(INITIAL_BALANCE_2), Units(0 - 100)}
ApiMiners == {ADDR_1, "0xcafe"}

\* Mutant: no lower bound, so a negative number indexes from the end.
get_block_by_number_NoLowerBound(ch, number) ==
    IF number < Len(ch)
    THEN <<ch[IF number < 0 THEN Len(ch) + number + 1 ELSE number + 1]>>
    ELSE <<>>

\* get_block_by_number: the block in a one-element sequence, None as <<>>.
get_block_by_number(ch, number) ==
    IF 0 <= number /\ number < Len(ch) THEN <<ch[number + 1]>> ELSE <<>>

GetBlockByNumber(number) ==
    /\ view' = [op |-> "get_block_by_number", number |-> number,
                result |-> get_block_by_number(chain, number)]
    /\ UNCHANGED <<chain, pending_transactions, accounts, lock, clock, next_uuid,
                   pc, frame, ret, applied, tampered>>

Involves(tx, address) == tx.sender = address \/ tx.recipient = address

\* The first loop of get_account_transactions: every embedded dict that
\* names the address gets its block_number written.
MarkChain(ch, address) ==
    [i \in 1..Len(ch) |->
        [ch[i] EXCEPT !.transactions =
            [j \in 1..Len(ch[i].transactions) |->
                IF Involves(ch[i].transactions[j], address)
                THEN [ch[i].transactions[j] EXCEPT !.block_number = ch[i].index]
                ELSE ch[i].transactions[j]]]]

\* list.sort(key=timestamp, reverse=True): stable, larger timestamps first.
RECURSIVE InsertByTimestamp(_, _)
InsertByTimestamp(sorted, tx) ==
    IF sorted = <<>> THEN <<tx>>
    ELSE IF sorted[1].timestamp >= tx.timestamp
         THEN <<sorted[1]>> \o InsertByTimestamp(Tail(sorted), tx)
         ELSE <<tx>> \o sorted

RECURSIVE SortByTimestampDesc(_, _)
SortByTimestampDesc(txs, sorted) ==
    IF txs = <<>> THEN sorted
    ELSE SortByTimestampDesc(Tail(txs), InsertByTimestamp(sorted, txs[1]))

\* get_account_transactions: the chain after the writes, and the list.
get_account_transactions(ch, pend, address) ==
    LET marked == MarkChain(ch, address)
        confirmed == SelectSeq(ChainTxs(marked), LAMBDA tx : Involves(tx, address))
        pooled == SelectSeq([i \in 1..Len(pend) |-> to_dict(pend[i])],
                            LAMBDA tx : Involves(tx, address))
    IN  [chain |-> marked,
         result |-> SortByTimestampDesc(confirmed \o pooled, <<>>)]

GetAccountTransactions(address) ==
    LET r == get_account_transactions(chain, pending_transactions, address)
    IN  /\ chain' = r.chain
        /\ view' = [op |-> "get_account_transactions", address |-> address,
                    result |-> r.result]
        /\ UNCHANGED <<pending_transactions, accounts, lock, clock, next_uuid,
                       pc, frame, ret, applied, tampered>>

NextApi ==
    \/ Tick
    \/ \E s \in ApiSenders, r \in ApiRecipients, a \in ApiAmounts,
          d \in DataInputs, g \in GasInputs :
             StagedCount < MaxApiStaged /\ AddTransaction(s, r, a, d, g)
    \/ \E m \in ApiMiners : Len(chain) <= MaxApiBlocks /\ MinePendingTransactions(m)
    \/ \E a \in GeneratedAddresses : CreateAccount(a)

SpecApi == Init /\ [][NextApi]_vars

\* The callers of the lookups: one sender, one miner, every lookup.
QuerySenders == {ADDR_2}
QueryMiners == {ADDR_1}
QueryAddresses == {ADDR_2}

NextQuery ==
    \/ Tick
    \/ \E s \in QuerySenders, r \in RecipientInputs, d \in DataInputs, g \in GasInputs :
             StagedCount < MaxApiStaged /\ AddTransaction(s, r, Units(100), d, g)
    \/ \E m \in QueryMiners : Len(chain) <= MaxApiBlocks /\ MinePendingTransactions(m)
    \/ \E id \in 1..next_uuid : GetTransaction(id)
    \/ \E n \in (0 - 1)..Len(chain) : GetBlockByNumber(n)
    \/ \E a \in QueryAddresses : GetAccountTransactions(a)

SpecQuery == Init /\ [][NextQuery]_vars

(***************************************************************************)
(* C11: an add_transaction call fails with InsufficientBalance exactly     *)
(* when the sender has an account whose balance is less than amount + fee, *)
(* the fee being gas_used * gas_price / 1e9; a failed call leaves the      *)
(* pending pool and the nonce of the sender as they were.                  *)
(***************************************************************************)
C11_Fee(d, g) == Money(0, GasUsed(d, g.gas_limit) * g.gas_price)

C11_StageStep ==
    \A s \in ApiSenders, r \in ApiRecipients, a \in ApiAmounts,
       d \in DataInputs, g \in GasInputs :
        AddTransaction(s, r, a, d, g)
            => /\ ret'.error = "InsufficientBalance"
                    <=> (s \in DOMAIN accounts
                         /\ MLess(accounts[s].balance, MAdd(a, C11_Fee(d, g))))
               /\ ret'.error /= "None"
                    => /\ pending_transactions' = pending_transactions
                       /\ s \in DOMAIN accounts => accounts'[s].nonce = accounts[s].nonce

C11_InsufficientBalance == [][C11_StageStep]_vars

C11_Witness ==
    /\ ret.op = "add_transaction"
    /\ ret.error = "InsufficientBalance"
    /\ pending_transactions = <<>>
    /\ accounts[ADDR_2].nonce = 0
    /\ accounts[ADDR_2].balance = Units(INITIAL_BALANCE_2)

(***************************************************************************)
(* C12: an add_transaction call that fails with UnknownSender or           *)
(* InsufficientBalance leaves chain, pending pool and accounts as they     *)
(* were; in particular the set of account addresses stays the same.        *)
(***************************************************************************)
C12_FailedStageStep ==
    /\ \E s \in ApiSenders, r \in ApiRecipients, a \in ApiAmounts,
          d \in DataInputs, g \in GasInputs : AddTransaction(s, r, a, d, g)
    /\ ret'.error \in {"UnknownSender", "InsufficientBalance"}

C12_FailedStagingChangesNothing ==
    [][C12_FailedStageStep
          => /\ DOMAIN accounts' = DOMAIN accounts
             /\ UNCHANGED <<chain, pending_transactions, accounts>>]_vars

(***************************************************************************)
(* C20: every transaction in the pending pool has a non-negative amount,   *)
(* and a mining step never lowers the balance of the recipient of a        *)
(* pooled transaction nor raises the balance of its sender.                *)
(***************************************************************************)
C20_PooledAmounts ==
    \A i \in 1..Len(pending_transactions) :
        ~MLess(pending_transactions[i].amount, Units(0))

C20_ApplyStep ==
    (\E m \in ApiMiners : MinePendingTransactions(m))
        => \A i \in 1..Len(pending_transactions) :
              LET tx == pending_transactions[i]
              IN  (tx.sender /= tx.recipient /\ tx.sender \in DOMAIN accounts
                   /\ tx.recipient \in DOMAIN accounts
                   /\ tx.recipient /= get_latest_block(chain').validator
                   /\ Len(pending_transactions) = 1)
                      => /\ ~MLess(accounts'[tx.recipient].balance,
                                   accounts[tx.recipient].balance)
                         /\ ~MLess(accounts[tx.sender].balance,
                                   accounts'[tx.sender].balance)

C20_AmountsNonNegative == [](C20_PooledAmounts) /\ [][C20_ApplyStep]_vars

(***************************************************************************)
(* C13: a mine_pending_transactions call on a pool holding one staged      *)
(* transfer of amount a with fee f from S to R, with S, R and the miner    *)
(* pairwise distinct, leaves S with its balance minus a minus f and R with *)
(* its balance plus a; an add_transaction call changes no balance.         *)
(***************************************************************************)
C13_SingleTransfer(tx, miner_address) ==
    /\ Len(pending_transactions) = 1
    /\ tx = pending_transactions[1]
    /\ tx.sender /= SYSTEM_ADDRESS
    /\ tx.sender /= tx.recipient
    /\ tx.sender /= miner_address
    /\ tx.recipient /= miner_address

C13_MineStep ==
    \A m \in MinerInputs :
        (MinePendingTransactions(m) /\ Len(pending_transactions) = 1)
            => LET tx == pending_transactions[1]
               IN  C13_SingleTransfer(tx, m)
                      => /\ accounts'[tx.sender].balance =
                               MSub(accounts[tx.sender].balance, MAdd(tx.amount, tx.fee))
                         /\ accounts'[tx.recipient].balance =
                               MAdd(accounts[tx.recipient].balance, tx.amount)

C13_StageStep ==
    (\E s \in SenderInputs, r \in RecipientInputs, a \in AmountInputs,
        d \in DataInputs, g \in GasInputs : AddTransaction(s, r, a, d, g))
        => \A x \in DOMAIN accounts : accounts'[x].balance = accounts[x].balance

C13_TransferEffect == [][C13_MineStep /\ C13_StageStep]_vars

C13_Witness ==
    /\ Len(chain) = 2
    /\ ret.op = "mine_pending_transactions"
    /\ ret.error = "None"
    /\ Len(chain[2].transactions) = 2
    /\ chain[2].transactions[1].sender = ADDR_2
    /\ chain[2].validator = ADDR_1
    /\ accounts[ADDR_2].balance =
          MSub(Units(INITIAL_BALANCE_2),
               MAdd(chain[2].transactions[1].amount, chain[2].transactions[1].fee))
    /\ accounts[chain[2].transactions[1].recipient].balance =
          chain[2].transactions[1].amount

(***************************************************************************)
(* C14: a mine_pending_transactions call on an empty pending pool returns  *)
(* no block and leaves the chain, the pending pool and every account as    *)
(* they were; no reward is applied.                                        *)
(***************************************************************************)
C14_EmptyMineStep ==
    /\ pending_transactions = <<>>
    /\ \E m \in MinerInputs : MinePendingTransactions(m)

C14_EmptyPoolMinesNothing ==
    [][C14_EmptyMineStep
          => /\ ret'.value = NoneNumber
             /\ ret'.error = "None"
             /\ UNCHANGED <<chain, pending_transactions, accounts, applied>>]_vars

C14_Witness ==
    /\ ret.op = "mine_pending_transactions"
    /\ ret.error = "None"
    /\ ret.value = NoneNumber
    /\ pending_transactions = <<>>
    /\ Len(chain) = 2

(***************************************************************************)
(* C16: a mine_pending_transactions call on a non-empty pool completes     *)
(* normally, and every address without an account that is the recipient    *)
(* of a transaction of the mined block (the miner of the reward            *)
(* transaction in particular) has afterwards an account whose balance is   *)
(* the amount received; no step removes an account.                        *)
(***************************************************************************)
C16_MineStep ==
    /\ pending_transactions /= <<>>
    /\ \E m \in MinerInputs : MinePendingTransactions(m)

C16_Created ==
    LET block == get_latest_block(chain')
    IN  /\ ret'.error = "None"
        /\ \A j \in 1..Len(block.transactions) :
              LET tx == block.transactions[j]
              IN  tx.recipient \notin DOMAIN accounts
                     => /\ tx.recipient \in DOMAIN accounts'
                        /\ ~MLess(accounts'[tx.recipient].balance, tx.amount)

C16_ImplicitAccounts ==
    [][/\ C16_MineStep => C16_Created
       /\ DOMAIN accounts \subseteq DOMAIN accounts']_vars

(***************************************************************************)
(* C17: every block appended by mine_pending_transactions holds exactly    *)
(* one transaction sent by the system address; it is the last of the       *)
(* block, its recipient is the miner, its amount is the fixed reward, its  *)
(* fee is 0 and its status is Confirmed; the system address has no         *)
(* account that could be debited.                                          *)
(***************************************************************************)
C17_IsReward(tx) == tx.sender = SYSTEM_ADDRESS

C17_OneRewardLast ==
    \A i \in 2..Len(chain) :
        LET txs == chain[i].transactions
            last == txs[Len(txs)]
        IN  /\ Len(txs) >= 1
            /\ Cardinality({j \in 1..Len(txs) : C17_IsReward(txs[j])}) = 1
            /\ C17_IsReward(last)
            /\ last.recipient = chain[i].validator
            /\ last.amount = Units(MINING_REWARD)
            /\ last.fee = Units(0)
            /\ last.status = "Confirmed"
            /\ SYSTEM_ADDRESS \notin DOMAIN accounts

(***************************************************************************)
(* C15: after a mine_pending_transactions call returned block B, the       *)
(* pending pool is empty and get_transaction reports every transaction of  *)
(* B with status Confirmed and block_number the index of B; the block      *)
(* embeds the transactions of the pool in pool order.                      *)
(***************************************************************************)
C15_Returned ==
    ret.op = "mine_pending_transactions" /\ ret.error = "None" /\ ret.value /= NoneNumber

C15_Reported ==
    C15_Returned
        => /\ pending_transactions = <<>>
           /\ (view.op = "get_transaction" /\ view.found
               /\ \E j \in 1..Len(chain[ret.value + 1].transactions) :
                     chain[ret.value + 1].transactions[j].id = view.result.id)
                 => /\ view.result.status = "Confirmed"
                    /\ view.result.block_number = ret.value

C15_PoolOrder ==
    ((\E m \in QueryMiners : MinePendingTransactions(m)) /\ pending_transactions /= <<>>)
        => \A k \in 1..Len(pending_transactions) :
              get_latest_block(chain').transactions[k].id = pending_transactions[k].id

C15_ConfirmedAfterMining == [](C15_Reported) /\ [][C15_PoolOrder]_vars

(***************************************************************************)
(* C18: get_block_by_number(n) returns None for n below 0 and for n at or  *)
(* beyond the length of the chain, the block at position n otherwise, and  *)
(* for n = 0 the genesis block, whose previous_hash is "0".                *)
(***************************************************************************)
C18_BlockByNumber ==
    /\ chain[1].index = 0
    /\ chain[1].previous_hash = ZERO_HASH
    /\ view.op = "get_block_by_number"
          => /\ (view.number < 0 \/ view.number >= Len(chain)) => view.result = <<>>
             /\ (0 <= view.number /\ view.number < Len(chain))
                   => /\ view.result = <<chain[view.number + 1]>>
                      /\ view.result[1].index = view.number
             /\ view.number = 0 => view.result[1].previous_hash = ZERO_HASH

C18_Witness ==
    /\ view.op = "get_block_by_number"
    /\ view.number < 0
    /\ view.result = <<>>
    /\ Len(chain) = 2

(***************************************************************************)
(* C19: a lookup (get_transaction, get_account_transactions,               *)
(* get_block_by_number) leaves the chain, every embedded transaction       *)
(* field included, the pending pool and the accounts as they were.         *)
(***************************************************************************)
C19_LookupStep ==
    view'.op \in {"get_transaction", "get_account_transactions", "get_block_by_number"}

C19_LookupsArePure ==
    [][C19_LookupStep => UNCHANGED <<chain, pending_transactions, accounts>>]_vars

(***************************************************************************)
(* The statistics on long chains.  The ledger is the one reached by        *)
(* staging one transfer and mining it, block after block, the clock        *)
(* standing still or advancing by one before each block.                   *)
(***************************************************************************)
MaxStatsBlocks == 11

ClockSteps == {0, 1}

\* The ledger after k rounds of add_transaction and mine_pending_transactions,
\* round j taking place steps[j] after the round before it.
RECURSIVE StatsLedger(_, _)
StatsLedger(steps, k) ==
    IF k = 0
    THEN [chain |-> <<create_genesis_block(1)>>, accounts |-> initial_accounts(1),
          applied |-> <<>>, now |-> 1]
    ELSE LET prev == StatsLedger(steps, k - 1)
             now == prev.now + steps[k]
             tx == Transaction(2 * k - 1, ADDR_1, ADDR_2, Units(100), Units(0), <<>>, 0,
                               DEFAULT_GAS_PRICE, DEFAULT_GAS_LIMIT, now)
             staged == add_transaction(prev.accounts, <<>>, tx, now)
             pool == Append(staged.pending, reward_tx(ADDR_1, 2 * k, now))
             mined == mine_block(new_block(prev.chain, pool, ADDR_1, now))
             r == process_all(staged.accounts, pool, 1, mined.index, prev.applied)
         IN  [chain |-> Append(prev.chain, mined), accounts |-> r.accounts,
              applied |-> r.applied, now |-> now]

InitStats ==
    \E n \in 0..MaxStatsBlocks :
        \E steps \in [1..n -> ClockSteps] :
            LET ledger == StatsLedger(steps, n)
            IN  /\ clock = ledger.now
                /\ chain = ledger.chain
                /\ pending_transactions = <<>>
                /\ accounts = ledger.accounts
                /\ lock = NoOwner
                /\ next_uuid = 2 * n + 1
                /\ pc = [t \in Threads |-> "idle"]
                /\ frame = [t \in Threads |-> IdleFrame]
                /\ ret = [op |-> "None", error |-> "None", value |-> NoneNumber]
                /\ applied = ledger.applied
                /\ view = NoView
                /\ tampered = NotTampered

NextStats == GetNetworkStats

SpecStats == InitStats /\ [][NextStats]_vars

(***************************************************************************)
(* C21: the average block time of get_network_stats is the arithmetic mean *)
(* of the timestamp deltas between consecutive blocks among the most       *)
(* recent blocks of the chain (as many deltas as the code averages at      *)
(* most, taken at the end of the chain), and 0 for a chain of fewer than   *)
(* two blocks; on a longer chain the deltas of the earliest blocks do not  *)
(* enter the mean.                                                         *)
(***************************************************************************)
C21_RecentMean(ch) ==
    LET count == Min(STATS_WINDOW, Len(ch)) - 1
        first == Len(ch) - count
    IN  IF count > 0
        THEN [num |-> ch[Len(ch)].timestamp - ch[first].timestamp, den |-> count]
        ELSE [num |-> 0, den |-> 1]

C21_AverageOverRecentBlocks ==
    view.op = "get_network_stats"
        => LET expected == C21_RecentMean(chain)
               got == view.result.average_block_time
           IN  got.num * expected.den = expected.num * got.den

(***************************************************************************)
(* Progress of concurrent callers.  A thread that is inside                *)
(* mine_pending_transactions keeps running: its next statement is taken    *)
(* eventually (weak fairness of the steps of the call).  Entering a call   *)
(* is not forced.  The clock stands still: progress does not depend on it. *)
(***************************************************************************)
LiveMiners == {ADDR_1, "0xcafe"}

MineRun(t) ==
    \/ MineReward(t)
    \/ MineBuild(t)
    \/ MinePow(t)
    \/ MineAppend(t)
    \/ MineProcess(t)
    \/ MineClear(t)

NextLive ==
    \/ \E s \in ConcSenders, r \in RecipientInputs, a \in AmountInputs,
          d \in DataInputs, g \in GasInputs :
             StagedCount < MaxConcStaged /\ AddTransaction(s, r, a, d, g)
    \/ \E a \in GeneratedAddresses : CreateAccount(a)
    \/ \E t \in Threads, m \in LiveMiners :
          Len(chain) <= MaxConcBlocks /\ MineEnter(t, m)
    \/ \E t \in Threads : MineRun(t)

SpecLive == Init /\ [][NextLive]_vars /\ \A t \in Threads : WF_vars(MineRun(t))

(***************************************************************************)
(* C22: every mine_pending_transactions call that entered on a non-empty   *)
(* pool leaves the call (the nonce search ends, the digest head returning  *)
(* to zero within the nonce cycle), and whenever the lock is held it is    *)
(* released later, so that a caller waiting for it can enter.              *)
(***************************************************************************)
C22_MiningTerminates ==
    /\ \A t \in Threads : Mining(t) ~> (~Mining(t) /\ lock /= t)
    /\ (lock /= NoOwner) ~> CanAcquire

C22_Witness ==
    /\ \A t \in Threads : ~Mining(t)
    /\ CanAcquire
    /\ ret.op = "mine_pending_transactions"
    /\ ret.error = "None"
    /\ ret.value = 1
    /\ get_latest_block(chain).nonce > 0

(***************************************************************************)
(* C23: every staged transaction is in the pending pool or in exactly one  *)
(* block, never in both and never in two blocks, and its ledger effect is  *)
(* applied exactly once when it is in a block and not at all before.       *)
(***************************************************************************)
C23_Blocks(id) ==
    {i \in 1..Len(chain) :
        \E j \in 1..Len(chain[i].transactions) : chain[i].transactions[j].id = id}

C23_Pooled(id) ==
    \E k \in 1..Len(pending_transactions) : pending_transactions[k].id = id

C23_Applications(id) ==
    Cardinality({k \in 1..Len(applied) : applied[k].id = id})

C23_StagedIdSet ==
    UNION {{TxsOf(s)[k].id : k \in 1..Len(TxsOf(s))} :
              s \in DOMAIN accounts \ {SYSTEM_ADDRESS}}

C23_ExactlyOnce ==
    \A id \in C23_StagedIdSet :
        /\ C23_Pooled(id) \/ C23_Blocks(id) /= {}
        /\ ~(C23_Pooled(id) /\ C23_Blocks(id) /= {})
        /\ Cardinality(C23_Blocks(id)) <= 1
        /\ C23_Applications(id) = Cardinality(C23_Blocks(id))

(***************************************************************************)
(* C24: is_chain_valid() is true in every state reached by staging, mining *)
(* and lookups, and a get_transaction or get_account_transactions call     *)
(* made on a valid chain leaves it valid.                                  *)
(***************************************************************************)
C24_LookupStep ==
    view'.op \in {"get_transaction", "get_account_transactions"}

C24_ValidAfterLookups ==
    /\ [](is_chain_valid(chain))
    /\ [][(C24_LookupStep /\ is_chain_valid(chain)) => is_chain_valid(chain')]_vars

(***************************************************************************)
(* The HTTP entry point POST /transactions: create_transaction stages the  *)
(* request and, when the pool is not empty, mines it at once with the      *)
(* sender as miner; every exception becomes success = false.  The ledger   *)
(* is driven through the HTTP handlers only.                               *)
(***************************************************************************)
MaxHttpBlocks == 2

HttpSenders == {ADDR_1, ADDR_2, "0xdead"}
HttpRecipients == {"0xbeef", ADDR_1}
HttpAmounts == {Units(100), Units(INITIAL_BALANCE_2)}

\* Mutant: the handler never mines.
auto_mine_Never(pend) == FALSE

\* if blockchain.pending_transactions:
auto_mine(pend) == pend /= <<>>

CreateTransaction(from_address, to_address, amount, gas) ==
    /\ CanAcquire
    /\ Len(chain) <= MaxHttpBlocks
    /\ LET tx == Transaction(next_uuid, from_address, to_address, amount, Units(0), <<>>,
                             0, gas.gas_price, gas.gas_limit, clock)
           staged == add_transaction(accounts, pending_transactions, tx, clock)
           pool == Append(staged.pending, reward_tx(from_address, next_uuid + 1, clock))
           mined == mine_block(new_block(chain, pool, from_address, clock))
           r == process_all(staged.accounts, pool, 1, mined.index, applied)
       IN  IF staged.error /= "None"
           THEN /\ accounts' = staged.accounts
                /\ ret' = [op |-> "create_transaction", error |-> staged.error,
                           value |-> NoneNumber]
                /\ UNCHANGED <<chain, pending_transactions, applied, next_uuid>>
           ELSE IF ~auto_mine(staged.pending)
           THEN /\ accounts' = staged.accounts
                /\ pending_transactions' = staged.pending
                /\ next_uuid' = next_uuid + 1
                /\ ret' = [op |-> "create_transaction", error |-> "None", value |-> tx.id]
                /\ UNCHANGED <<chain, applied>>
           ELSE /\ chain' = Append(chain, mined)
                /\ accounts' = r.accounts
                /\ applied' = r.applied
                /\ pending_transactions' = IF r.raised THEN r.pending ELSE <<>>
                /\ next_uuid' = next_uuid + 2
                /\ ret' = [op |-> "create_transaction",
                           error |-> IF r.raised THEN "TypeError" ELSE "None",
                           value |-> IF r.raised THEN NoneNumber ELSE tx.id]
    /\ view' = NoView
    /\ UNCHANGED <<lock, clock, pc, frame, tampered>>

NextHttp ==
    \/ Tick
    \/ \E f \in HttpSenders, t \in HttpRecipients, a \in HttpAmounts, g \in GasInputs :
          CreateTransaction(f, t, a, g)

SpecHttp == Init /\ [][NextHttp]_vars

(***************************************************************************)
(* C25: a create_transaction request whose staging succeeds reports        *)
(* success and leaves the pending pool empty and the chain one block       *)
(* longer, the new block holding the staged transaction followed by the    *)
(* reward transaction for the sender; a request whose staging fails        *)
(* reports success = false and leaves the chain and the pool as they were. *)
(***************************************************************************)
C25_Request(f, t, a, g) == CreateTransaction(f, t, a, g)

C25_Staged(f, a, g) ==
    /\ f \in DOMAIN accounts
    /\ ~MLess(accounts[f].balance, MAdd(a, C11_Fee(<<>>, g)))

C25_Mined(f, t, a) ==
    LET block == get_latest_block(chain')
    IN  /\ ret'.error = "None"
        /\ pending_transactions' = <<>>
        /\ Len(chain') = Len(chain) + 1
        /\ Len(block.transactions) = 2
        /\ block.transactions[1].id = ret'.value
        /\ block.transactions[1].sender = f
        /\ block.transactions[1].recipient = t
        /\ block.transactions[1].amount = a
        /\ block.transactions[2].sender = SYSTEM_ADDRESS
        /\ block.transactions[2].recipient = f
        /\ block.validator = f

C25_RequestStep ==
    \A f \in HttpSenders, t \in HttpRecipients, a \in HttpAmounts, g \in GasInputs :
        C25_Request(f, t, a, g)
            => IF C25_Staged(f, a, g)
               THEN C25_Mined(f, t, a)
               ELSE /\ ret'.error /= "None"
                    /\ UNCHANGED <<chain, pending_transactions>>

C25_PoolEmptyBetweenRequests == pending_transactions = <<>>

C25_StagedIsMinedAtOnce ==
    [](C25_PoolEmptyBetweenRequests) /\ [][C25_RequestStep]_vars

C25_Witness ==
    /\ ret.op = "create_transaction"
    /\ ret.error = "None"
    /\ Len(chain) = 3
    /\ pending_transactions = <<>>
    /\ Len(chain[3].transactions) = 2
    /\ chain[3].transactions[1].id = ret.value

====
